---- MODULE Spec2Model ----
(***************************************************************************)
(* mochi-shell GPU abstraction layer: backend negotiation and context      *)
(* lifetime (gpucontext.c), the resource manager (gpucontext.c) and the    *)
(* render graph interpreter (passes.c).                                    *)
(*                                                                         *)
(* The native libraries (EGL, OpenGL ES) are the environment.  They are    *)
(* modelled as a test double that accounts for every object by the call    *)
(* that acquires it and the call that releases it, and whose results       *)
(* (probe failures, compile status, object names) are chosen               *)
(* nondeterministically.                                                   *)
(***************************************************************************)
EXTENDS Integers, Sequences, FiniteSets, TLC

\* ------------------------------------------------------------------ bounds

\* Surface dimensions handed to gpu_context_create range over 1..MaxDim.
MaxDim == 2

\* ------------------------------------------------------------- build target

\* The preprocessor branches of gpucontext.c lines 7-33.
Platforms == {"linux", "freebsd", "win32", "apple", "other"}

\* USE_EGL is defined on __linux__ and __FreeBSD__ only.
USE_EGL(p) == p \in {"linux", "freebsd"}

\* ------------------------------------------------------------------- state

VARIABLES
  platform,   \* the build target the library was compiled for
  heap,       \* the GpuContext allocation: "none" | "live" | "freed"
  ctx,        \* the fields of struct GpuContext
  egl,        \* EGL double: what the process holds of the display connection
  pc,         \* position inside gpu_context_create or gpu_context_destroy
  probes,     \* the backend probes of this gpu_context_create call, in order
  ret,        \* what gpu_context_create returned: "pending" | "NULL" | "ctx"
  gl,         \* OpenGL ES double: live objects, bindings, blend function
  lastCall,   \* the most recent resource manager call, its argument and result
  deleted,    \* history: the shader handles gpu_context_delete_shader released
  nodes,      \* render graph under execution: the node type tags
  params,     \* render graph under execution: the memory at `params`
  param_count, \* how many parameters the caller supplied (the code is not told)
  node_i,     \* gpu_execute_render_graph: the loop index i
  param_offset, \* gpu_execute_render_graph: the parameter cursor
  calls,      \* the pass and draw calls issued for the current submission
  reads,      \* the parameter indices the most recent node read
  gstat       \* gpu_execute_render_graph: "idle" | "running" | "done" | "fault"

createVars == <<pc, probes, ret>>

resVars == <<gl, lastCall, deleted>>

graphVars == <<nodes, params, param_count, node_i, param_offset, calls, reads, gstat>>

vars == <<platform, heap, ctx, egl, createVars, resVars, graphVars>>

\* ------------------------------------------------------------- EGL double

\* Nothing acquired: no initialized display connection, surface or context.
\* `doomed` holds what a destroy call found current: EGL defers its deletion
\* until it is current no more.  `swapped` records eglSwapBuffers on the
\* surface.
EglNone ==
  [ initialized |-> FALSE, surface |-> FALSE, context |-> FALSE, current |-> FALSE,
    doomed |-> {}, swapped |-> FALSE ]

eglInitialize(e) == [e EXCEPT !.initialized = TRUE]

\* Closes the display connection.  Surfaces and contexts are accounted for by
\* their own destroy calls.
eglTerminate(e) == [e EXCEPT !.initialized = FALSE]

eglCreatePbufferSurface(e) == [e EXCEPT !.surface = TRUE]

eglDestroySurface(e) ==
  IF e.current THEN [e EXCEPT !.doomed = @ \cup {"surface"}]
  ELSE [e EXCEPT !.surface = FALSE, !.swapped = FALSE]

eglCreateContext(e) == [e EXCEPT !.context = TRUE]

eglDestroyContext(e) ==
  IF e.current THEN [e EXCEPT !.doomed = @ \cup {"context"}]
  ELSE [e EXCEPT !.context = FALSE]

eglMakeCurrent(e) == [e EXCEPT !.current = TRUE]

\* eglMakeCurrent(display, EGL_NO_SURFACE, EGL_NO_SURFACE, EGL_NO_CONTEXT):
\* nothing is current afterwards, and what was doomed is deleted.
eglMakeCurrentNone(e) ==
  [e EXCEPT !.current = FALSE,
            !.surface = IF "surface" \in e.doomed THEN FALSE ELSE @,
            !.swapped = IF "surface" \in e.doomed THEN FALSE ELSE @,
            !.context = IF "context" \in e.doomed THEN FALSE ELSE @,
            !.doomed = {}]

\* On a pbuffer surface eglSwapBuffers has no effect beyond the call itself.
eglSwapBuffers(e) == [e EXCEPT !.swapped = TRUE]

\* ------------------------------------------------------------- GpuContext

\* calloc(1, sizeof(GpuContext)) followed by the three assignments.
NewCtx(w, h) ==
  [ backend_type    |-> "NONE",
    width           |-> w,
    height          |-> h,
    egl_display     |-> "EGL_NO_DISPLAY",
    egl_surface     |-> "EGL_NO_SURFACE",
    egl_context     |-> "EGL_NO_CONTEXT",
    current_program |-> 0,
    device_name     |-> "",
    vendor_name     |-> "",
    driver_version  |-> "" ]

\* Before gpu_context_create has run there is no context object.
NoCtx == NewCtx(0, 0)

\* --------------------------------------------------------- backend probes

\* try_init_vulkan: not implemented, always false, ctx untouched.
try_init_vulkan_ok == FALSE

\* try_init_opengl: false on every platform; on FreeBSD and macOS it first
\* writes the identity strings and the backend kind.
try_init_opengl_ok == FALSE

try_init_opengl_ctx(c, p) ==
  IF p \in {"freebsd", "apple"}
  THEN [c EXCEPT !.vendor_name = "System",
                 !.device_name = "OpenGL (not initialized)",
                 !.driver_version = "N/A",
                 !.backend_type = "OPENGL"]
  ELSE c

\* The EGL calls of try_init_opengles that can fail, in call order; "none"
\* is the run in which all succeed.
EglCalls == <<"eglGetDisplay", "eglInitialize", "eglChooseConfig",
              "eglCreatePbufferSurface", "eglCreateContext", "eglMakeCurrent">>

EglFailures == {EglCalls[k] : k \in 1..Len(EglCalls)}

\* The release calls on each failing exit of try_init_opengles.
ReleaseNoConfig(e) == eglTerminate(e)

ReleaseNoSurface(e) == eglTerminate(e)

ReleaseNoContextMut(e) == eglTerminate(e)

ReleaseNoContext(e) == eglTerminate(eglDestroySurface(e))

ReleaseNotCurrent(e) == eglTerminate(eglDestroySurface(eglDestroyContext(e)))

\* The EGL double after try_init_opengles in which `fail` is the first call
\* to fail.
try_init_opengles_egl(e, fail) ==
  IF fail \in {"eglGetDisplay", "eglInitialize"} THEN e
  ELSE LET e1 == eglInitialize(e) IN
  IF fail = "eglChooseConfig" THEN ReleaseNoConfig(e1)
  ELSE IF fail = "eglCreatePbufferSurface" THEN ReleaseNoSurface(e1)
  ELSE LET e2 == eglCreatePbufferSurface(e1) IN
  IF fail = "eglCreateContext" THEN ReleaseNoContext(e2)
  ELSE LET e3 == eglCreateContext(e2) IN
  IF fail = "eglMakeCurrent" THEN ReleaseNotCurrent(e3)
  ELSE eglMakeCurrent(e3)

\* strncpy of a glGetString result into an identity field; a NULL result
\* leaves the field as it was.
CopyId(old, s) == IF s = "NULL" THEN old ELSE s

\* The context fields after try_init_opengles: the handles are stored as the
\* calls return them, the identity strings and the backend kind only on
\* success.
try_init_opengles_ctx(c, fail, vendor, renderer, version) ==
  LET c1 == IF fail = "eglGetDisplay" THEN [c EXCEPT !.egl_display = "EGL_NO_DISPLAY"]
            ELSE [c EXCEPT !.egl_display = "display"]
      c2 == IF fail \in {"eglGetDisplay", "eglInitialize", "eglChooseConfig"} THEN c1
            ELSE IF fail = "eglCreatePbufferSurface"
                 THEN [c1 EXCEPT !.egl_surface = "EGL_NO_SURFACE"]
                 ELSE [c1 EXCEPT !.egl_surface = "surface"]
      c3 == IF fail \in {"eglGetDisplay", "eglInitialize", "eglChooseConfig",
                         "eglCreatePbufferSurface"} THEN c2
            ELSE IF fail = "eglCreateContext"
                 THEN [c2 EXCEPT !.egl_context = "EGL_NO_CONTEXT"]
                 ELSE [c2 EXCEPT !.egl_context = "context"]
  IN IF fail = "none"
     THEN [c3 EXCEPT !.vendor_name = CopyId(@, vendor),
                     !.device_name = CopyId(@, renderer),
                     !.driver_version = CopyId(@, version),
                     !.backend_type = "OPENGLES"]
     ELSE c3

\* What glGetString may hand back for each identity string.
GlStrings(kind) == {"NULL", kind}

\* ----------------------------------------------------- gpu_context_create

\* The order in which gpu_context_create calls the probes.
ProbeOrderMut == <<"opengl", "vulkan", "opengles">>

ProbeOrder == <<"vulkan", "opengl", "opengles">>

\* The probe gpu_context_create is about to call.
NextProbe == IF Len(probes) < Len(ProbeOrder) THEN ProbeOrder[Len(probes) + 1] ELSE "none"

\* After a probe returned: return ctx on success, fall to the next on failure.
AfterProbe(backend, ok) ==
  /\ probes' = Append(probes, [backend |-> backend, ok |-> ok])
  /\ pc' = IF ok THEN "returned" ELSE "probing"
  /\ ret' = IF ok THEN "ctx" ELSE ret

\* free(ctx) on the no-backend exit.
FreeCtxMut(h) == h

FreeCtx(h) == "freed"

gpu_context_create_enter(w, h, calloc_ok) ==
  /\ pc = "idle"
  /\ IF calloc_ok
     THEN /\ heap' = "live"
          /\ ctx' = NewCtx(w, h)
          /\ pc' = "probing"
          /\ ret' = "pending"
     ELSE /\ pc' = "returned"
          /\ ret' = "NULL"
          /\ UNCHANGED <<heap, ctx>>
  /\ UNCHANGED <<platform, egl, probes, resVars, graphVars>>

gpu_context_create_vulkan ==
  /\ pc = "probing"
  /\ NextProbe = "vulkan"
  /\ AfterProbe("vulkan", try_init_vulkan_ok)
  /\ UNCHANGED <<platform, heap, ctx, egl, resVars, graphVars>>

gpu_context_create_opengl ==
  /\ pc = "probing"
  /\ NextProbe = "opengl"
  /\ ctx' = try_init_opengl_ctx(ctx, platform)
  /\ AfterProbe("opengl", try_init_opengl_ok)
  /\ UNCHANGED <<platform, heap, egl, resVars, graphVars>>

gpu_context_create_opengles(fail, vendor, renderer, version) ==
  /\ pc = "probing"
  /\ NextProbe = "opengles"
  /\ IF USE_EGL(platform)
     THEN /\ egl' = try_init_opengles_egl(egl, fail)
          /\ ctx' = try_init_opengles_ctx(ctx, fail, vendor, renderer, version)
          /\ AfterProbe("opengles", fail = "none")
     ELSE /\ AfterProbe("opengles", FALSE)
          /\ UNCHANGED <<egl, ctx>>
  /\ UNCHANGED <<platform, heap, resVars, graphVars>>

gpu_context_create_no_backend ==
  /\ pc = "probing"
  /\ NextProbe = "none"
  /\ heap' = FreeCtx(heap)
  /\ ret' = "NULL"
  /\ pc' = "returned"
  /\ UNCHANGED <<platform, ctx, egl, probes, resVars, graphVars>>

\* -------------------------------------------------------- OpenGL ES double

\* The double hands out names 1..MaxObj for shader and program objects (one
\* name space), 1..MaxBuf for buffers and 1..MaxTex for textures; texture
\* units are 0..MaxSlot.  `clears` records glClear on the surface; the
\* viewport is <<>> while it is the initial one (the surface's rectangle),
\* and <<x, y, width, height>> once glViewport has set it; `uniforms` holds,
\* per program name, the value at uniform location 0; `program_doomed` says
\* that the program in use has been deleted, which OpenGL carries out when
\* the program is in use no more.
MaxObj == 3

MaxBuf == 1

MaxTex == 1

MaxSlot == 0

\* The state of a freshly created OpenGL ES context.
GlInit ==
  [ shaders        |-> {},
    programs       |-> {},
    buffers        |-> {},
    textures       |-> {},
    program        |-> 0,
    array_buffer   |-> 0,
    active_texture |-> 0,
    texture_2d     |-> [s \in 0..MaxSlot |-> 0],
    blend          |-> [enabled |-> FALSE, src |-> "GL_ONE", dst |-> "GL_ZERO"],
    clear_color    |-> <<0, 0, 0, 0>>,
    clears         |-> FALSE,
    viewport       |-> <<>>,
    uniforms       |-> [p \in 1..MaxObj |-> 0],
    program_doomed |-> FALSE ]

\* Names glCreateShader and glCreateProgram may return: any unused non-zero
\* name, a released one included.
FreeObj(g) == (1..MaxObj) \ (g.shaders \cup g.programs)

FreeBuf(g) == (1..MaxBuf) \ g.buffers

FreeTex(g) == (1..MaxTex) \ g.textures

glCreateShader(g, n) == [g EXCEPT !.shaders = @ \cup {n}]

\* Zero and names that are no shader object are left alone.
glDeleteShader(g, n) == [g EXCEPT !.shaders = @ \ {n}]

\* A program's uniforms start at zero.
glCreateProgram(g, n) == [g EXCEPT !.programs = @ \cup {n}, !.uniforms[n] = 0]

\* The program object and its uniform storage are removed.
RemoveProgram(g, n) ==
  [g EXCEPT !.programs = @ \ {n},
            !.uniforms = [p \in 1..MaxObj |-> IF p = n THEN 0 ELSE @[p]]]

\* Zero and names that are no program object are left alone; the program in
\* use is only flagged.
glDeleteProgram(g, n) ==
  IF n \notin g.programs THEN g
  ELSE IF g.program = n THEN [g EXCEPT !.program_doomed = TRUE]
  ELSE RemoveProgram(g, n)

\* GL_INVALID_VALUE, and no change, for a name that is neither zero nor a
\* program object.  A flagged program is removed when another takes its
\* place.
glUseProgram(g, n) ==
  IF n # 0 /\ n \notin g.programs THEN g
  ELSE IF n = g.program THEN g
  ELSE LET g1 == IF g.program_doomed
                 THEN [RemoveProgram(g, g.program) EXCEPT !.program_doomed = FALSE]
                 ELSE g
       IN [g1 EXCEPT !.program = n]

\* glGetUniformLocation(program, name): -1 for a name that is no program
\* object; for a program, -1 or location 0 as the name is or is not one of
\* its active uniforms.
UniformLocations(g, program) == IF program \in g.programs THEN {-1, 0} ELSE {-1}

\* glUniform*(location, ...): writes the program in use; location -1 is
\* ignored, and so is the call when no program is in use.
glUniform(g, location, value) ==
  IF location = 0 /\ g.program \in g.programs
  THEN [g EXCEPT !.uniforms[g.program] = value]
  ELSE g

glGenBuffers(g, n) == [g EXCEPT !.buffers = @ \cup {n}]

glBindBuffer(g, n) == [g EXCEPT !.array_buffer = n]

\* Deleting the bound buffer reverts the binding to zero.
glDeleteBuffers(g, n) ==
  IF n \in g.buffers
  THEN [g EXCEPT !.buffers = @ \ {n},
                 !.array_buffer = IF @ = n THEN 0 ELSE @]
  ELSE g

glGenTextures(g, n) == [g EXCEPT !.textures = @ \cup {n}]

glActiveTexture(g, slot) == IF slot \in 0..MaxSlot THEN [g EXCEPT !.active_texture = slot] ELSE g

glBindTexture(g, n) == [g EXCEPT !.texture_2d[g.active_texture] = n]

\* Deleting a bound texture reverts its bindings to zero.
glDeleteTextures(g, n) ==
  IF n \in g.textures
  THEN [g EXCEPT !.textures = @ \ {n},
                 !.texture_2d = [s \in 0..MaxSlot |-> IF @[s] = n THEN 0 ELSE @[s]]]
  ELSE g

\* Every object the double holds, tagged by kind.
Live(g) ==
  {<<"shader", n>> : n \in g.shaders} \cup {<<"program", n>> : n \in g.programs}
    \cup {<<"buffer", n>> : n \in g.buffers} \cup {<<"texture", n>> : n \in g.textures}

\* ------------------------------------------------------- resource manager

\* `c` is the ctx argument: "ctx" for the context gpu_context_create
\* returned, "NULL" for a null pointer.
CtxArgs == {"ctx", "NULL"}

\* The body under #ifdef USE_EGL / backend_type == GPU_BACKEND_OPENGLES runs.
OnGlesMut(c) == USE_EGL(platform) /\ ctx.backend_type = "OPENGLES"

OnGles(c) == c = "ctx" /\ USE_EGL(platform) /\ ctx.backend_type = "OPENGLES"

NoCall == [op |-> "none", c |-> "NULL", arg |-> 0, ret |-> 0, outcome |-> "none"]

Call(op, c, arg, r, outcome) == [op |-> op, c |-> c, arg |-> arg, ret |-> r, outcome |-> outcome]

\* How far gpu_context_create_shader gets.
ShaderOutcomes == {"vertex_failed", "fragment_failed", "link_failed", "linked"}

\* The release calls on each exit of gpu_context_create_shader.
ReleaseVertexFailed(g, vs) == glDeleteShader(g, vs)

ReleaseFragmentFailedMut(g, vs, fs) == glDeleteShader(g, fs)

ReleaseFragmentFailed(g, vs, fs) == glDeleteShader(glDeleteShader(g, vs), fs)

ReleaseLinkFailed(g, vs, fs, prog) ==
  glDeleteProgram(glDeleteShader(glDeleteShader(g, vs), fs), prog)

ReleaseLinkedMut(g, vs, fs) == glDeleteShader(g, vs)

ReleaseLinked(g, vs, fs) == glDeleteShader(glDeleteShader(g, vs), fs)

\* The double after the OpenGL ES branch of gpu_context_create_shader.
create_shader_gl(g, outcome, vs, fs, prog) ==
  LET g1 == glCreateShader(g, vs) IN
  IF outcome = "vertex_failed" THEN ReleaseVertexFailed(g1, vs)
  ELSE LET g2 == glCreateShader(g1, fs) IN
  IF outcome = "fragment_failed" THEN ReleaseFragmentFailed(g2, vs, fs)
  ELSE LET g3 == glCreateProgram(g2, prog) IN
  IF outcome = "link_failed" THEN ReleaseLinkFailed(g3, vs, fs, prog)
  ELSE ReleaseLinked(g3, vs, fs)

\* The handle the OpenGL ES branch of gpu_context_create_shader returns.
create_shader_ret(outcome, prog) == IF outcome = "linked" THEN prog ELSE 0

gpu_context_create_shader(c, vertex_src, fragment_src) ==
  /\ IF c = "NULL" \/ vertex_src = "NULL" \/ fragment_src = "NULL"
     THEN /\ lastCall' = Call("create_shader", c, 0, 0, "rejected")
          /\ gl' = gl
     ELSE IF OnGles(c)
     THEN \E outcome \in ShaderOutcomes, vs \in FreeObj(gl) :
          \E fs \in IF outcome = "vertex_failed" THEN {0} ELSE FreeObj(gl) \ {vs} :
          \E prog \in IF outcome \in {"vertex_failed", "fragment_failed"} THEN {0}
                      ELSE FreeObj(gl) \ {vs, fs} :
            /\ gl' = create_shader_gl(gl, outcome, vs, fs, prog)
            /\ lastCall' = Call("create_shader", c, 0, create_shader_ret(outcome, prog), outcome)
     ELSE /\ lastCall' = Call("create_shader", c, 0, 0, "no_backend")
          /\ gl' = gl
  /\ UNCHANGED <<platform, heap, ctx, egl, createVars, graphVars>>

\* ctx->current_program = (GLuint)shader.
use_shader_ctxMut(c0, shader) == c0

use_shader_ctx(c0, shader) == [c0 EXCEPT !.current_program = shader]

gpu_context_use_shader(c, shader) ==
  /\ IF OnGles(c)
     THEN /\ gl' = glUseProgram(gl, shader)
          /\ ctx' = use_shader_ctx(ctx, shader)
     ELSE UNCHANGED <<gl, ctx>>
  /\ lastCall' = Call("use_shader", c, shader, 0, "void")
  /\ UNCHANGED <<platform, heap, egl, createVars, graphVars>>

gpu_context_delete_shader(c, shader) ==
  /\ gl' = IF OnGles(c) THEN glDeleteProgram(gl, shader) ELSE gl
  /\ lastCall' = Call("delete_shader", c, shader, 0, "void")
  /\ UNCHANGED <<platform, heap, ctx, egl, createVars, graphVars>>

\* The five upload functions: gpu_context_set_uniform_float, _vec2, _vec3,
\* _vec4 and _mat4 have one body, apart from the glUniform* call each makes
\* and the null check of the matrix argument.
UniformOps ==
  {"set_uniform_float", "set_uniform_vec2", "set_uniform_vec3", "set_uniform_vec4",
   "set_uniform_mat4"}

\* The values uploaded.
UniformVals == {0, 1}

\* if (location >= 0) glUniform*(location, ...).
set_uniform_glMut(g, location, value) == glUniform(g, 0, value)

set_uniform_gl(g, location, value) == IF location >= 0 THEN glUniform(g, location, value) ELSE g

\* The call record's `arg` is the program handed to glGetUniformLocation,
\* its `ret` the location that call returned.
gpu_context_set_uniform(op, c, name, matrix, value) ==
  /\ IF c = "NULL" \/ name = "NULL" \/ (op = "set_uniform_mat4" /\ matrix = "NULL")
     THEN /\ lastCall' = Call(op, c, 0, 0, "rejected")
          /\ gl' = gl
     ELSE IF OnGles(c)
     THEN \E location \in UniformLocations(gl, ctx.current_program) :
            /\ gl' = set_uniform_gl(gl, location, value)
            /\ lastCall' = Call(op, c, ctx.current_program, location, "looked_up")
     ELSE /\ lastCall' = Call(op, c, 0, 0, "no_backend")
          /\ gl' = gl
  /\ UNCHANGED <<platform, heap, ctx, egl, createVars, graphVars>>

\* The handle the OpenGL ES branch of gpu_context_create_buffer returns.
create_buffer_retMut(buffer) == 0

create_buffer_ret(buffer) == buffer

gpu_context_create_buffer(c, data) ==
  /\ IF c = "NULL" \/ data = "NULL"
     THEN /\ lastCall' = Call("create_buffer", c, 0, 0, "rejected")
          /\ gl' = gl
     ELSE IF OnGles(c)
     THEN \E buffer \in FreeBuf(gl) :
            /\ gl' = glBindBuffer(glGenBuffers(gl, buffer), buffer)
            /\ lastCall' = Call("create_buffer", c, 0, create_buffer_ret(buffer), "created")
     ELSE /\ lastCall' = Call("create_buffer", c, 0, 0, "no_backend")
          /\ gl' = gl
  /\ UNCHANGED <<platform, heap, ctx, egl, createVars, graphVars>>

gpu_context_bind_buffer(c, buffer) ==
  /\ gl' = IF OnGles(c) THEN glBindBuffer(gl, buffer) ELSE gl
  /\ lastCall' = Call("bind_buffer", c, buffer, 0, "void")
  /\ UNCHANGED <<platform, heap, ctx, egl, createVars, graphVars>>

gpu_context_delete_buffer(c, buffer) ==
  /\ gl' = IF OnGles(c) THEN glDeleteBuffers(gl, buffer) ELSE gl
  /\ lastCall' = Call("delete_buffer", c, buffer, 0, "void")
  /\ UNCHANGED <<platform, heap, ctx, egl, createVars, graphVars>>

\* The handle the OpenGL ES branch of gpu_context_create_texture returns.
create_texture_ret(texture) == texture

gpu_context_create_texture(c, data) ==
  /\ IF c = "NULL"
     THEN /\ lastCall' = Call("create_texture", c, 0, 0, "rejected")
          /\ gl' = gl
     ELSE IF OnGles(c)
     THEN \E texture \in FreeTex(gl) :
            /\ gl' = glBindTexture(glGenTextures(gl, texture), texture)
            /\ lastCall' = Call("create_texture", c, 0, create_texture_ret(texture), "created")
     ELSE /\ lastCall' = Call("create_texture", c, 0, 0, "no_backend")
          /\ gl' = gl
  /\ UNCHANGED <<platform, heap, ctx, egl, createVars, graphVars>>

gpu_context_bind_texture(c, texture, slot) ==
  /\ gl' = IF OnGles(c) THEN glBindTexture(glActiveTexture(gl, slot), texture) ELSE gl
  /\ lastCall' = Call("bind_texture", c, texture, 0, "void")
  /\ UNCHANGED <<platform, heap, ctx, egl, createVars, graphVars>>

gpu_context_delete_texture(c, texture) ==
  /\ gl' = IF OnGles(c) THEN glDeleteTextures(gl, texture) ELSE gl
  /\ lastCall' = Call("delete_texture", c, texture, 0, "void")
  /\ UNCHANGED <<platform, heap, ctx, egl, createVars, graphVars>>

\* ------------------------------------------------------- context queries

\* The values of enum GpuBackendType.
BackendEnum(kind) ==
  CASE kind = "NONE" -> 0
    [] kind = "VULKAN" -> 1
    [] kind = "OPENGL" -> 2
    [] kind = "OPENGLES" -> 3

\* ctx != NULL && ctx->backend_type != GPU_BACKEND_NONE, as the C bool.
is_valid_retMut(c) == IF ctx.backend_type # "NONE" THEN 1 ELSE 0

is_valid_ret(c) == IF c # "NULL" /\ ctx.backend_type # "NONE" THEN 1 ELSE 0

\* ctx ? ctx->backend_type : GPU_BACKEND_NONE.
get_backend_ret(c) == IF c # "NULL" THEN BackendEnum(ctx.backend_type) ELSE BackendEnum("NONE")

\* What glGetIntegerv(GL_MAX_TEXTURE_SIZE) may report.
MaxTextureSizes == {2048, 4096}

\* The GpuDeviceInfo gpu_context_get_device_info leaves behind: the memset,
\* the copies from the context, and on OpenGL ES the texture size limit.
get_device_info_retMut(c, max_texture_size) ==
  [ backend_type     |-> BackendEnum("NONE"),
    device_name      |-> ctx.device_name,
    vendor_name      |-> ctx.vendor_name,
    driver_version   |-> ctx.driver_version,
    max_texture_size |-> IF OnGles(c) THEN max_texture_size ELSE 0,
    supports_compute |-> FALSE ]

get_device_info_ret(c, max_texture_size) ==
  [ backend_type     |-> BackendEnum(ctx.backend_type),
    device_name      |-> ctx.device_name,
    vendor_name      |-> ctx.vendor_name,
    driver_version   |-> ctx.driver_version,
    max_texture_size |-> IF OnGles(c) THEN max_texture_size ELSE 0,
    supports_compute |-> FALSE ]

gpu_context_is_valid(c) ==
  /\ lastCall' = Call("is_valid", c, 0, is_valid_ret(c), "returned")
  /\ UNCHANGED <<platform, heap, ctx, egl, createVars, gl, graphVars>>

gpu_context_get_backend(c) ==
  /\ lastCall' = Call("get_backend", c, 0, get_backend_ret(c), "returned")
  /\ UNCHANGED <<platform, heap, ctx, egl, createVars, gl, graphVars>>

\* `info` is the out parameter: "NULL" or the caller's GpuDeviceInfo, whose
\* contents after the call are the `ret` of the call record.
gpu_context_get_device_info(c, info) ==
  /\ IF c = "NULL" \/ info = "NULL"
     THEN lastCall' = Call("get_device_info", c, 0, 0, "skipped")
     ELSE \E max_texture_size \in MaxTextureSizes :
            lastCall' = Call("get_device_info", c, 0,
                             get_device_info_ret(c, max_texture_size), "filled")
  /\ UNCHANGED <<platform, heap, ctx, egl, createVars, gl, graphVars>>

\* -------------------------------------------------------- frame operations

\* glClearColor clamps each component to [0, 1]; components are in halves.
Clamp01(v) == IF v < 0 THEN 0 ELSE IF v > 2 THEN 2 ELSE v

glClearColor(g, r, gr, b, a) ==
  [g EXCEPT !.clear_color = <<Clamp01(r), Clamp01(gr), Clamp01(b), Clamp01(a)>>]

glClear(g) == [g EXCEPT !.clears = TRUE]

glViewport(g, x, y, width, height) == [g EXCEPT !.viewport = <<x, y, width, height>>]

\* The double after the OpenGL ES branch of gpu_context_clear.
gpu_context_clear_gl(g, r, gr, b, a) == glClear(glClearColor(g, r, gr, b, a))

gpu_context_clear(c, r, gr, b, a) ==
  /\ gl' = IF OnGles(c) THEN gpu_context_clear_gl(gl, r, gr, b, a) ELSE gl
  /\ lastCall' = Call("clear", c, 0, 0, "void")
  /\ UNCHANGED <<platform, heap, ctx, egl, createVars, graphVars>>

\* The context after the two assignments of gpu_context_viewport.
viewport_ctxMut(c0, width, height) == [c0 EXCEPT !.width = width]

viewport_ctx(c0, width, height) == [c0 EXCEPT !.width = width, !.height = height]

gpu_context_viewport(c, x, y, width, height) ==
  /\ IF OnGles(c)
     THEN /\ gl' = glViewport(gl, x, y, width, height)
          /\ ctx' = viewport_ctx(ctx, width, height)
     ELSE UNCHANGED <<gl, ctx>>
  /\ lastCall' = Call("viewport", c, <<x, y, width, height>>, 0, "void")
  /\ UNCHANGED <<platform, heap, egl, createVars, graphVars>>

gpu_context_present(c) ==
  /\ egl' = IF OnGles(c) THEN eglSwapBuffers(egl) ELSE egl
  /\ lastCall' = Call("present", c, 0, 0, "void")
  /\ UNCHANGED <<platform, heap, ctx, createVars, gl, graphVars>>

\* ----------------------------------------------------- gpu_context_destroy

\* The EGL calls of gpu_context_destroy on an OpenGL ES context, in call
\* order: unbind, destroy the context, destroy the surface, terminate.
destroy_eglMut(e) == eglTerminate(eglDestroySurface(eglDestroyContext(e)))

destroy_egl(e) == eglTerminate(eglDestroySurface(eglDestroyContext(eglMakeCurrentNone(e))))

\* Shaders, programs, buffers and textures belong to the rendering context:
\* they are gone once the context is deleted.
ContextObjects(e, g) == IF e.context THEN g ELSE GlInit

\* What a read of ctx->backend_type through a dangling pointer may yield:
\* the value the freed object held, any other value, or a fault.
DanglingReads == {"stale", "other", "fault"}

\* gpu_context_destroy.  The call record's `arg` notes how many backend
\* objects were outstanding at the call, its `outcome` which part of the body
\* ran: "nothing" (the null check returned), "released" (the EGL release
\* calls and free), "freed" (free alone), "fault".  A context that was
\* already destroyed is a dangling pointer: it passes the null check, and
\* the body reads freed memory and frees it again.
gpu_context_destroy(c) ==
  /\ IF c = "NULL"
     THEN /\ lastCall' = Call("destroy", c, Cardinality(Live(gl)), 0, "nothing")
          /\ UNCHANGED <<heap, egl, gl>>
     ELSE IF heap = "live"
     THEN /\ egl' = IF OnGles(c) THEN destroy_egl(egl) ELSE egl
          /\ gl' = ContextObjects(egl', gl)
          /\ heap' = "freed"
          /\ lastCall' = Call("destroy", c, Cardinality(Live(gl)), 0,
                              IF OnGles(c) THEN "released" ELSE "freed")
     ELSE \E seen \in DanglingReads :
          /\ heap' = IF seen = "fault" THEN "fault" ELSE "double_freed"
          /\ lastCall' = Call("destroy", c, Cardinality(Live(gl)), 0,
                              CASE seen = "stale" ->
                                     IF OnGles(c) THEN "released" ELSE "freed"
                                [] seen = "other" -> "freed"
                                [] seen = "fault" -> "fault")
          /\ UNCHANGED <<egl, gl>>
  /\ UNCHANGED <<platform, ctx, createVars, graphVars>>

\* --------------------------------------- gpu_context_destroy, call by call

\* The EGL calls of gpu_context_destroy in the order the code makes them.
DestroyOrderMut == <<"eglDestroyContext", "eglDestroySurface", "eglMakeCurrent", "eglTerminate">>

DestroyOrder == <<"eglMakeCurrent", "eglDestroyContext", "eglDestroySurface", "eglTerminate">>

\* The position after EGL call number k of gpu_context_destroy: the next
\* call, or free(ctx) after the last.
AfterDestroyCall(k) == IF k < Len(DestroyOrder) THEN DestroyOrder[k + 1] ELSE "free"

\* One EGL call of gpu_context_destroy applied to the double.
DestroyCall(e, call) ==
  CASE call = "eglMakeCurrent" -> eglMakeCurrentNone(e)
    [] call = "eglDestroyContext" -> eglDestroyContext(e)
    [] call = "eglDestroySurface" -> eglDestroySurface(e)
    [] call = "eglTerminate" -> eglTerminate(e)

\* Entry: the null check, then the backend check.
gpu_context_destroy_enter(c) ==
  /\ pc = "returned"
  /\ IF c = "NULL"
     THEN /\ lastCall' = Call("destroy", c, Cardinality(Live(gl)), 0, "nothing")
          /\ pc' = pc
     ELSE /\ lastCall' = Call("destroy", c, Cardinality(Live(gl)), 0, "entered")
          /\ pc' = IF OnGles(c) THEN DestroyOrder[1] ELSE "free"
  /\ UNCHANGED <<platform, heap, ctx, egl, probes, ret, gl, graphVars>>

\* EGL call number k of the body.
gpu_context_destroy_call(k) ==
  /\ pc = DestroyOrder[k]
  /\ \A j \in 1..(k - 1) : DestroyOrder[j] # pc
  /\ egl' = DestroyCall(egl, DestroyOrder[k])
  /\ gl' = ContextObjects(egl', gl)
  /\ pc' = AfterDestroyCall(k)
  /\ UNCHANGED <<platform, heap, ctx, probes, ret, lastCall, graphVars>>

\* free(ctx), and the return.
gpu_context_destroy_free ==
  /\ pc = "free"
  /\ heap' = "freed"
  /\ pc' = "returned"
  /\ lastCall' = [lastCall EXCEPT !.outcome = IF OnGles("ctx") THEN "released" ELSE "freed"]
  /\ UNCHANGED <<platform, ctx, egl, probes, ret, gl, graphVars>>

\* ------------------------------------------------------ effect pass library

\* gpu_blur_pass, gpu_shadow_pass and gpu_color_adjust_pass return after
\* their null checks: they issue no backend call.
gpu_blur_pass_gl(g) == g

gpu_shadow_pass_gl(g) == g

gpu_color_adjust_pass_gl(g) == g

\* HAS_OPENGL of passes.c lines 6-17.
HAS_OPENGL(p) == p \in {"linux", "freebsd", "win32", "apple"}

\* The glBlendFunc arguments of each case of the switch in
\* gpu_composite_pass; no case matches any other mode.
BlendFuncDefaultMut(blend_mode) ==
  CASE blend_mode = 1 -> <<"GL_DST_COLOR", "GL_ZERO">>
    [] blend_mode = 2 -> <<"GL_ONE", "GL_ONE_MINUS_SRC_COLOR">>
    [] blend_mode = 3 -> <<"GL_SRC_ALPHA", "GL_ONE">>
    [] OTHER -> <<"GL_SRC_ALPHA", "GL_ONE_MINUS_SRC_ALPHA">>

BlendFuncMultiplyMut(blend_mode) ==
  CASE blend_mode = 0 -> <<"GL_SRC_ALPHA", "GL_ONE_MINUS_SRC_ALPHA">>
    [] blend_mode = 1 -> <<"GL_ZERO", "GL_SRC_COLOR">>
    [] blend_mode = 2 -> <<"GL_ONE", "GL_ONE_MINUS_SRC_COLOR">>
    [] blend_mode = 3 -> <<"GL_SRC_ALPHA", "GL_ONE">>
    [] OTHER -> <<>>

BlendFunc(blend_mode) ==
  CASE blend_mode = 0 -> <<"GL_SRC_ALPHA", "GL_ONE_MINUS_SRC_ALPHA">>
    [] blend_mode = 1 -> <<"GL_DST_COLOR", "GL_ZERO">>
    [] blend_mode = 2 -> <<"GL_ONE", "GL_ONE_MINUS_SRC_COLOR">>
    [] blend_mode = 3 -> <<"GL_SRC_ALPHA", "GL_ONE">>
    [] OTHER -> <<>>

\* gpu_composite_pass on a non-null context: glEnable(GL_BLEND), then the
\* switch.  HAS_OPENGL is 1 on every platform with an OpenGL header.
gpu_composite_pass_gl(g, blend_mode) ==
  LET g1 == [g EXCEPT !.blend.enabled = TRUE]
      f == BlendFunc(blend_mode)
  IN IF f = <<>> THEN g1
     ELSE [g1 EXCEPT !.blend.src = f[1], !.blend.dst = f[2]]

gpu_composite_pass(c, blend_mode) ==
  /\ gl' = IF c # "NULL" /\ HAS_OPENGL(platform)
           THEN gpu_composite_pass_gl(gl, blend_mode)
           ELSE gl
  /\ lastCall' = Call("composite_pass", c, blend_mode, 0, "void")
  /\ UNCHANGED <<platform, heap, ctx, egl, createVars, graphVars>>

\* ------------------------------------------------ render graph interpreter

\* A graph holds up to MaxNodes nodes.  Parameters are floats, modelled in
\* halves: the integer v stands for v / 2, and tapes hold values from -2
\* (-1.0) to MaxHalf.
MaxNodes == 2

MaxHalf == 8

\* The node type tags: 0..5 are Clear, DrawRect, BlurPass, ShadowPass,
\* CompositePass, ColorAdjust; -1 and 6 are tags no case of the switch matches.
NodeTags == -1..6

FloatVals == -2..MaxHalf

\* (int32_t) of a float: truncation toward zero.
FloatToInt32(v) == IF v >= 0 THEN v \div 2 ELSE -((-v) \div 2)

\* The offsets from param_offset each case of the switch reads.
NodeReads(node_type) ==
  CASE node_type = 0 -> {0, 1, 2, 3}
    [] node_type = 1 -> {}
    [] node_type = 2 -> {0, 1}
    [] node_type = 3 -> {0, 1, 2, 3, 4, 5, 6, 7}
    [] node_type = 4 -> {0}
    [] node_type = 5 -> {0, 1, 2}
    [] OTHER -> {}

\* What each case of the switch adds to param_offset.
NodeAdvanceMut(node_type) ==
  CASE node_type = 0 -> 4
    [] node_type = 1 -> 8
    [] node_type = 2 -> 2
    [] node_type = 3 -> 7
    [] node_type = 4 -> 1
    [] node_type = 5 -> 3
    [] OTHER -> 0

NodeAdvanceUnknownMut(node_type) ==
  CASE node_type = 0 -> 4
    [] node_type = 1 -> 8
    [] node_type = 2 -> 2
    [] node_type = 3 -> 8
    [] node_type = 4 -> 1
    [] node_type = 5 -> 3
    [] OTHER -> 1

NodeAdvance(node_type) ==
  CASE node_type = 0 -> 4
    [] node_type = 1 -> 8
    [] node_type = 2 -> 2
    [] node_type = 3 -> 8
    [] node_type = 4 -> 1
    [] node_type = 5 -> 3
    [] OTHER -> 0

\* The call each case of the switch makes, with the arguments it takes from
\* the parameters at `off` (a 0-based offset into the 1-based sequence p);
\* <<>> where the case makes none.
NodeCalls(node_type, p, off) ==
  CASE node_type = 0 ->
         <<[fn |-> "gpu_context_clear",
            args |-> <<p[off + 1], p[off + 2], p[off + 3], p[off + 4]>>]>>
    [] node_type = 2 ->
         <<[fn |-> "gpu_blur_pass", args |-> <<p[off + 1], FloatToInt32(p[off + 2])>>]>>
    [] node_type = 3 ->
         <<[fn |-> "gpu_shadow_pass",
            args |-> <<p[off + 1], p[off + 2], p[off + 3], p[off + 4],
                       p[off + 5], p[off + 6], p[off + 7], p[off + 8]>>]>>
    [] node_type = 4 ->
         <<[fn |-> "gpu_composite_pass", args |-> <<FloatToInt32(p[off + 1])>>]>>
    [] node_type = 5 ->
         <<[fn |-> "gpu_color_adjust_pass", args |-> <<p[off + 1], p[off + 2], p[off + 3]>>]>>
    [] OTHER -> <<>>

\* The double after the call of each case.
NodeGl(g, node_type, p, off) ==
  CASE node_type = 0 ->
         IF OnGles("ctx")
         THEN gpu_context_clear_gl(g, p[off + 1], p[off + 2], p[off + 3], p[off + 4])
         ELSE g
    [] node_type = 2 -> gpu_blur_pass_gl(g)
    [] node_type = 3 -> gpu_shadow_pass_gl(g)
    [] node_type = 4 -> gpu_composite_pass_gl(g, FloatToInt32(p[off + 1]))
    [] node_type = 5 -> gpu_color_adjust_pass_gl(g)
    [] OTHER -> g

\* No graph is under execution.
GraphIdle ==
  /\ nodes = <<>>
  /\ params = <<>>
  /\ param_count = 0
  /\ node_i = 0
  /\ param_offset = 0
  /\ calls = <<>>
  /\ reads = {}
  /\ gstat = "idle"

\* Entry of gpu_execute_render_graph: the null checks and param_offset = 0.
\* `mem` is the memory at params, of which the caller supplied the first n
\* values.
gpu_execute_render_graph_enter(c, nodes_arg, params_arg, ns, mem, n) ==
  /\ gstat = "idle"
  /\ IF c = "NULL" \/ nodes_arg = "NULL" \/ params_arg = "NULL"
     THEN /\ gstat' = "done"
          /\ UNCHANGED <<nodes, params, param_count>>
     ELSE /\ gstat' = "running"
          /\ nodes' = ns
          /\ params' = mem
          /\ param_count' = n
  /\ node_i' = 0
  /\ param_offset' = 0
  /\ calls' = <<>>
  /\ reads' = {}
  /\ UNCHANGED <<platform, heap, ctx, egl, createVars, resVars>>

\* The parameter indices (0-based) the node at node_i reads.
NodeIndices == {param_offset + o : o \in NodeReads(nodes[node_i + 1])}

\* One iteration of the loop.  The code does not know how many parameters
\* it was given: its reads inside the supplied sequence are
\* defined, a read past the end is undefined behaviour.
gpu_execute_render_graph_node ==
  /\ gstat = "running"
  /\ node_i < Len(nodes)
  /\ \A k \in NodeIndices : k < param_count
  /\ reads' = NodeIndices
  /\ calls' = calls \o NodeCalls(nodes[node_i + 1], params, param_offset)
  /\ gl' = NodeGl(gl, nodes[node_i + 1], params, param_offset)
  /\ param_offset' = param_offset + NodeAdvance(nodes[node_i + 1])
  /\ node_i' = node_i + 1
  /\ UNCHANGED <<platform, heap, ctx, egl, createVars, lastCall, deleted,
                 nodes, params, param_count, gstat>>

\* An iteration that reads past the supplied parameters: the build either
\* takes whatever the memory there holds and goes on, or faults.
gpu_execute_render_graph_overread ==
  /\ gstat = "running"
  /\ node_i < Len(nodes)
  /\ \E k \in NodeIndices : k >= param_count
  /\ \/ /\ reads' = NodeIndices
        /\ calls' = calls \o NodeCalls(nodes[node_i + 1], params, param_offset)
        /\ gl' = NodeGl(gl, nodes[node_i + 1], params, param_offset)
        /\ param_offset' = param_offset + NodeAdvance(nodes[node_i + 1])
        /\ node_i' = node_i + 1
        /\ UNCHANGED gstat
     \/ /\ gstat' = "fault"
        /\ UNCHANGED <<reads, calls, gl, param_offset, node_i>>
  /\ UNCHANGED <<platform, heap, ctx, egl, createVars, lastCall, deleted,
                 nodes, params, param_count>>

\* The loop ends: i = node_count.
gpu_execute_render_graph_exit ==
  /\ gstat = "running"
  /\ node_i = Len(nodes)
  /\ gstat' = "done"
  /\ UNCHANGED <<platform, heap, ctx, egl, createVars, resVars,
                 nodes, params, param_count, node_i, param_offset, calls, reads>>

\* The call has returned; the caller may submit the next graph.
gpu_execute_render_graph_return ==
  /\ gstat = "done"
  /\ gstat' = "idle"
  /\ nodes' = <<>>
  /\ params' = <<>>
  /\ param_count' = 0
  /\ node_i' = 0
  /\ param_offset' = 0
  /\ calls' = <<>>
  /\ reads' = {}
  /\ UNCHANGED <<platform, heap, ctx, egl, createVars, resVars>>

\* ------------------------------------------------------------ life cycle

Init ==
  /\ platform \in Platforms
  /\ heap = "none"
  /\ ctx = NoCtx
  /\ egl = EglNone
  /\ pc = "idle"
  /\ probes = <<>>
  /\ ret = "pending"
  /\ gl = GlInit
  /\ lastCall = NoCall
  /\ deleted = {}
  /\ GraphIdle

Next ==
  \/ \E w \in 1..MaxDim, h \in 1..MaxDim, ok \in BOOLEAN :
       gpu_context_create_enter(w, h, ok)
  \/ gpu_context_create_vulkan
  \/ gpu_context_create_opengl
  \/ \E fail \in EglFailures \cup {"none"},
        vendor \in GlStrings("vendor"),
        renderer \in GlStrings("renderer"),
        version \in GlStrings("version") :
       gpu_context_create_opengles(fail, vendor, renderer, version)
  \/ gpu_context_create_no_backend

Spec == Init /\ [][Next]_vars

\* --------------------------------------------- resource manager in use

\* A context as gpu_context_create returns it: every probe before OpenGL ES
\* failed and try_init_opengles succeeded.
InitRes ==
  /\ platform \in {p \in Platforms : USE_EGL(p)}
  /\ heap = "live"
  /\ ctx = try_init_opengles_ctx(try_init_opengl_ctx(NewCtx(MaxDim, MaxDim), platform),
                                 "none", "vendor", "renderer", "version")
  /\ egl = try_init_opengles_egl(EglNone, "none")
  /\ pc = "returned"
  /\ probes = [k \in 1..Len(ProbeOrder) |->
                 [backend |-> ProbeOrder[k], ok |-> ProbeOrder[k] = "opengles"]]
  /\ ret = "ctx"
  /\ gl = GlInit
  /\ lastCall = NoCall
  /\ deleted = {}
  /\ GraphIdle

\* Shaders, buffers and textures of one context, calls in any order.
ResNext ==
  \/ \E c \in CtxArgs, vsrc \in {"NULL", "src"}, fsrc \in {"NULL", "src"} :
       gpu_context_create_shader(c, vsrc, fsrc) /\ UNCHANGED deleted
  \/ \E c \in CtxArgs, h \in 0..MaxObj :
       gpu_context_use_shader(c, h) /\ UNCHANGED deleted
  \/ \E c \in CtxArgs, h \in 0..MaxObj :
       gpu_context_delete_shader(c, h) /\ UNCHANGED deleted
  \/ \E c \in CtxArgs, data \in {"NULL", "data"} :
       gpu_context_create_buffer(c, data) /\ UNCHANGED deleted
  \/ \E c \in CtxArgs, h \in 0..MaxBuf :
       gpu_context_bind_buffer(c, h) /\ UNCHANGED deleted
  \/ \E c \in CtxArgs, h \in 0..MaxBuf :
       gpu_context_delete_buffer(c, h) /\ UNCHANGED deleted
  \/ \E c \in CtxArgs, data \in {"NULL", "data"} :
       gpu_context_create_texture(c, data) /\ UNCHANGED deleted
  \/ \E c \in CtxArgs, h \in 0..MaxTex, slot \in 0..MaxSlot :
       gpu_context_bind_texture(c, h, slot) /\ UNCHANGED deleted
  \/ \E c \in CtxArgs, h \in 0..MaxTex :
       gpu_context_delete_texture(c, h) /\ UNCHANGED deleted

SpecRes == InitRes /\ [][ResNext]_vars

\* The shader calls alone, with the history of released handles: `deleted`
\* gains every handle that named a program when gpu_context_delete_shader
\* released it.
ShaderNext ==
  \/ \E c \in CtxArgs, vsrc \in {"NULL", "src"}, fsrc \in {"NULL", "src"} :
       gpu_context_create_shader(c, vsrc, fsrc) /\ UNCHANGED deleted
  \/ \E c \in CtxArgs, h \in 0..MaxObj :
       gpu_context_use_shader(c, h) /\ UNCHANGED deleted
  \/ \E c \in CtxArgs, h \in 0..MaxObj :
       /\ gpu_context_delete_shader(c, h)
       /\ deleted' = IF gl'.programs # gl.programs THEN deleted \cup {h} ELSE deleted

SpecShader == InitRes /\ [][ShaderNext]_vars

\* ------------------------------------------------- a context's whole life

\* The ctx arguments a caller can pass once gpu_context_create has returned:
\* NULL always, the context while it is alive.
Callable == IF ret = "ctx" /\ heap = "live" THEN CtxArgs ELSE {"NULL"}

\* gpu_context_destroy is also tried on the pointer of a context that was
\* destroyed before.
Destroyable == IF ret = "ctx" /\ heap \in {"live", "freed"} THEN CtxArgs ELSE {"NULL"}

\* Creation, the queries and destruction of one context.
LifeNext ==
  \/ \E w \in 1..MaxDim, h \in 1..MaxDim, ok \in BOOLEAN :
       gpu_context_create_enter(w, h, ok)
  \/ gpu_context_create_vulkan
  \/ gpu_context_create_opengl
  \/ \E fail \in EglFailures \cup {"none"},
        vendor \in GlStrings("vendor"),
        renderer \in GlStrings("renderer"),
        version \in GlStrings("version") :
       gpu_context_create_opengles(fail, vendor, renderer, version)
  \/ gpu_context_create_no_backend
  \/ /\ pc = "returned"
     /\ \E c \in Callable : gpu_context_is_valid(c) /\ UNCHANGED deleted
  \/ /\ pc = "returned"
     /\ \E c \in Callable : gpu_context_get_backend(c) /\ UNCHANGED deleted
  \/ /\ pc = "returned"
     /\ \E c \in Callable, info \in {"NULL", "info"} :
          gpu_context_get_device_info(c, info) /\ UNCHANGED deleted
  \/ /\ pc = "returned"
     /\ \E c \in Destroyable : gpu_context_destroy(c) /\ UNCHANGED deleted

SpecLife == Init /\ [][LifeNext]_vars

\* ------------------------------------------- teardown with resources out

\* Creation and deletion of shaders, buffers and textures in any order, and
\* the destruction of the context that issued them.
TeardownNext ==
  \/ \E c \in Callable, vsrc \in {"NULL", "src"}, fsrc \in {"NULL", "src"} :
       gpu_context_create_shader(c, vsrc, fsrc) /\ UNCHANGED deleted
  \/ \E c \in Callable, h \in 0..MaxObj :
       gpu_context_delete_shader(c, h) /\ UNCHANGED deleted
  \/ \E c \in Callable, data \in {"NULL", "data"} :
       gpu_context_create_buffer(c, data) /\ UNCHANGED deleted
  \/ \E c \in Callable, h \in 0..MaxBuf :
       gpu_context_delete_buffer(c, h) /\ UNCHANGED deleted
  \/ \E c \in Callable, data \in {"NULL", "data"} :
       gpu_context_create_texture(c, data) /\ UNCHANGED deleted
  \/ \E c \in Callable, h \in 0..MaxTex :
       gpu_context_delete_texture(c, h) /\ UNCHANGED deleted
  \/ \E c \in Callable : gpu_context_destroy(c) /\ UNCHANGED deleted

SpecTeardown == InitRes /\ [][TeardownNext]_vars

\* ------------------------------------------------------------- frames

\* The clear colours tried, in halves: opaque black, white, and one with
\* components outside [0, 1].
Colours == {<<0, 0, 0, 2>>, <<2, 2, 2, 2>>, <<-2, 4, 1, 0>>}

\* The blend modes tried: the four of the switch and one on either side.
BlendModes == -1..4

\* The frame operations and the composite pass on one context, in any order.
FrameNext ==
  \/ \E c \in Callable, col \in Colours :
       gpu_context_clear(c, col[1], col[2], col[3], col[4]) /\ UNCHANGED deleted
  \/ \E c \in Callable, x \in {-1, 0}, y \in {0}, w \in 0..MaxDim, h \in 0..MaxDim :
       gpu_context_viewport(c, x, y, w, h) /\ UNCHANGED deleted
  \/ \E c \in Callable : gpu_context_present(c) /\ UNCHANGED deleted
  \/ \E c \in Callable, blend_mode \in BlendModes :
       gpu_composite_pass(c, blend_mode) /\ UNCHANGED deleted

SpecFrame == InitRes /\ [][FrameNext]_vars

\* ------------------------------------------------------ uniform uploads

\* Shader creation, selection and deletion, and uniform uploads, in any
\* order.
UniformNext ==
  \/ \E c \in Callable, vsrc \in {"NULL", "src"}, fsrc \in {"NULL", "src"} :
       gpu_context_create_shader(c, vsrc, fsrc) /\ UNCHANGED deleted
  \/ \E c \in Callable, h \in 0..MaxObj :
       gpu_context_use_shader(c, h) /\ UNCHANGED deleted
  \/ \E c \in Callable, h \in 0..MaxObj :
       gpu_context_delete_shader(c, h) /\ UNCHANGED deleted
  \/ \E op \in UniformOps, c \in Callable, name \in {"NULL", "name"},
        matrix \in {"NULL", "matrix"}, value \in UniformVals :
       gpu_context_set_uniform(op, c, name, matrix, value) /\ UNCHANGED deleted

SpecUniform == InitRes /\ [][UniformNext]_vars

\* ------------------------------------------------- teardown, call by call

\* Resources are created, frames presented, and the context is destroyed one
\* EGL call at a time; no other call runs while gpu_context_destroy does.
DestroyNext ==
  \/ /\ pc = "returned"
     /\ \E c \in Callable, vsrc \in {"NULL", "src"}, fsrc \in {"NULL", "src"} :
          gpu_context_create_shader(c, vsrc, fsrc) /\ UNCHANGED deleted
  \/ /\ pc = "returned"
     /\ \E c \in Callable, data \in {"NULL", "data"} :
          gpu_context_create_buffer(c, data) /\ UNCHANGED deleted
  \/ /\ pc = "returned"
     /\ \E c \in Callable : gpu_context_present(c) /\ UNCHANGED deleted
  \/ \E c \in Callable : gpu_context_destroy_enter(c) /\ UNCHANGED deleted
  \/ \E k \in 1..Len(DestroyOrder) : gpu_context_destroy_call(k) /\ UNCHANGED deleted
  \/ gpu_context_destroy_free /\ UNCHANGED deleted

SpecDestroy == InitRes /\ [][DestroyNext]_vars

\* ---------------------------------------------- render graphs in execution

\* The arity the graph format declares for each node type.
DeclaredArity(node_type) ==
  CASE node_type = 0 -> 4
    [] node_type = 1 -> 8
    [] node_type = 2 -> 2
    [] node_type = 3 -> 8
    [] node_type = 4 -> 1
    [] node_type = 5 -> 3
    [] OTHER -> 0

RECURSIVE TotalArity(_)
TotalArity(ns) == IF ns = <<>> THEN 0 ELSE DeclaredArity(Head(ns)) + TotalArity(Tail(ns))

Graphs == UNION {[1..n -> NodeTags] : n \in 0..MaxNodes}

\* The parameter memories tried: every constant tape, the tape that counts
\* up through FloatVals, and the scenarios of the specification
\* ([0,0,0,1], [1,1,1,1,0] and [4.0,8]).
Tapes(len) ==
  {[k \in 1..len |-> v] : v \in FloatVals}
    \cup {[k \in 1..len |-> -2 + ((k - 1) % (MaxHalf + 3))]}
    \cup {t \in {<<0, 0, 0, 2>>, <<2, 2, 2, 2, 0>>, <<8, 16>>} : Len(t) = len}

Max(a, b) == IF a >= b THEN a ELSE b

GraphNext ==
  \/ /\ gstat = "idle"
     /\ \E c \in CtxArgs, nodes_arg \in {"NULL", "nodes"}, params_arg \in {"NULL", "params"},
           ns \in Graphs :
        \E n \in {TotalArity(ns) - 1, TotalArity(ns), TotalArity(ns) + 1} \cap Nat :
        \E mem \in Tapes(Max(n, TotalArity(ns))) :
          gpu_execute_render_graph_enter(c, nodes_arg, params_arg, ns, mem, n)
  \/ gpu_execute_render_graph_node
  \/ gpu_execute_render_graph_overread
  \/ gpu_execute_render_graph_exit
  \/ gpu_execute_render_graph_return

SpecGraph == InitRes /\ [][GraphNext]_vars

\* ------------------------------------------------------------ properties

\* C1: a submitted graph whose declared arities do not sum to the number of
\* parameters supplied has no pass or draw call executed for it.
C1_MalformedGraphRunsNothing ==
  (gstat # "idle" /\ TotalArity(nodes) # param_count) => calls = <<>>

KnownGraph == \A k \in 1..Len(nodes) : nodes[k] \in 0..5

\* C2: while a graph of known node types executes, the cursor equals the
\* declared arities of the nodes already dispatched, the node just
\* dispatched read only indices from its own cursor up to its arity, and
\* the cursor at the end equals the total arity of the graph.
C2_CursorFollowsArity ==
  (gstat # "idle" /\ KnownGraph) =>
    /\ param_offset = TotalArity(SubSeq(nodes, 1, node_i))
    /\ node_i > 0 =>
         reads \subseteq TotalArity(SubSeq(nodes, 1, node_i - 1)) .. (param_offset - 1)
    /\ gstat = "done" => param_offset = TotalArity(nodes)

\* C2 witness: the graph [ShadowPass, Clear] has run to its end: the Clear
\* node read indices 8..11 and left the cursor at 12.
C2_Witness ==
  /\ gstat = "done"
  /\ nodes = <<3, 0>>
  /\ param_count = 12
  /\ reads = {8, 9, 10, 11}
  /\ param_offset = 12
  /\ Len(calls) = 2

\* The backend priority of the specification, and the kind each probe binds.
Priority == <<"vulkan", "opengl", "opengles">>

KindOf(backend) ==
  CASE backend = "vulkan" -> "VULKAN"
    [] backend = "opengl" -> "OPENGL"
    [] backend = "opengles" -> "OPENGLES"

LastProbe == probes[Len(probes)]

\* C3: gpu_context_create probes Vulkan, then desktop OpenGL, then OpenGL ES;
\* every probe but the last one made has failed, so nothing is probed after a
\* success; a context is returned exactly when the last probe succeeded, and
\* it carries that probe's backend kind.
C3_ProbesInPriorityOrder ==
  /\ Len(probes) <= Len(Priority)
  /\ \A k \in 1..Len(probes) :
       /\ probes[k].backend = Priority[k]
       /\ k < Len(probes) => ~probes[k].ok
  /\ ret = "ctx" <=> (probes # <<>> /\ LastProbe.ok)
  /\ ret = "ctx" => ctx.backend_type = KindOf(LastProbe.backend)

\* C3 witness: a context returned by the third probe after two failures.
C3_Witness ==
  /\ ret = "ctx"
  /\ Len(probes) = 3
  /\ ~probes[1].ok
  /\ ~probes[2].ok

\* C4: once a probe has returned false, the process holds no initialized EGL
\* display connection, no surface and no context, whichever call of
\* try_init_opengles failed.
C4_FailedProbeHoldsNothing ==
  (probes # <<>> /\ ~LastProbe.ok) => egl = EglNone

\* C4 witness: try_init_opengles failed at eglMakeCurrent, after it had
\* acquired the display connection, the surface and the context.
C4_Witness ==
  /\ probes # <<>>
  /\ LastProbe.backend = "opengles"
  /\ ~LastProbe.ok
  /\ ctx.egl_surface = "surface"
  /\ ctx.egl_context = "context"

\* C5: when all three probes have failed and gpu_context_create has returned,
\* it returned NULL, the context object it allocated is freed, and nothing
\* of a backend is left initialized.
C5_AllProbesFailed ==
  (pc = "returned" /\ Len(probes) = Len(Priority) /\ \A k \in 1..Len(probes) : ~probes[k].ok)
    => (ret = "NULL" /\ heap = "freed" /\ egl = EglNone)

\* C5 witness: gpu_context_create returned after three failed probes.
C5_Witness ==
  /\ pc = "returned"
  /\ Len(probes) = 3
  /\ \A k \in 1..3 : ~probes[k].ok

ShaderFailures == {"vertex_failed", "fragment_failed", "link_failed"}

\* C6: a gpu_context_create_shader call in which a stage fails to compile or
\* the program fails to link returns 0 and leaves the set of live backend
\* objects as it was before the call.
C6_FailedShaderLeaksNothing ==
  [][(lastCall'.op = "create_shader" /\ lastCall'.outcome \in ShaderFailures)
       => (lastCall'.ret = 0 /\ Live(gl') = Live(gl))]_vars

\* C6 witness: a call whose fragment stage failed after the vertex stage had
\* compiled.
C6_Witness ==
  /\ lastCall.op = "create_shader"
  /\ lastCall.outcome = "fragment_failed"
  /\ lastCall.ret = 0

\* C7: a gpu_context_create_shader call that links adds exactly one live
\* backend object, a program that was not live before, and returns its
\* handle; no stage object stays.
C7_LinkedShaderAddsOneProgram ==
  [][(lastCall'.op = "create_shader" /\ lastCall'.outcome = "linked")
       => /\ <<"program", lastCall'.ret>> \notin Live(gl)
          /\ Live(gl') = Live(gl) \cup {<<"program", lastCall'.ret>>}]_vars

\* C7 witness: a call that linked and returned a live program.
C7_Witness ==
  /\ lastCall.op = "create_shader"
  /\ lastCall.outcome = "linked"
  /\ lastCall.ret \in gl.programs

CreateOps == {"create_shader", "create_buffer", "create_texture"}

\* C8: a creation call that changed the set of live backend objects returned
\* a non-zero handle, and a creation call that returned 0 left that set as
\* it was.
C8_ZeroNeverNamesAResource ==
  [][lastCall'.op \in CreateOps
       => /\ Live(gl') # Live(gl) => lastCall'.ret # 0
          /\ lastCall'.ret = 0 => Live(gl') = Live(gl)]_vars

\* C8 witness: gpu_context_create_buffer returned the handle of the buffer
\* it created.
C8_Witness ==
  /\ lastCall.op = "create_buffer"
  /\ lastCall.ret # 0
  /\ lastCall.ret \in gl.buffers

ZeroIgnoringOps ==
  {"delete_shader", "delete_buffer", "delete_texture", "bind_buffer", "bind_texture", "use_shader"}

\* C9: delete, bind and use calls given handle 0 on a valid context leave the
\* context (its current program) and the backend (bindings, live objects) as
\* they were.
C9_ZeroHandleIsNoOp ==
  [][(lastCall'.op \in ZeroIgnoringOps /\ lastCall'.c = "ctx" /\ lastCall'.arg = 0)
       => (ctx' = ctx /\ gl' = gl)]_vars

\* C10: gpu_context_delete_shader given a handle it has already released
\* releases nothing and changes no state, later creations included.
C10_DeleteTwiceIsNoOp ==
  [][(lastCall'.op = "delete_shader" /\ lastCall'.arg \in deleted)
       => (gl' = gl /\ ctx' = ctx)]_vars

\* C11: gpu_context_destroy given NULL, or a context that was destroyed
\* before, runs no part of its body: no backend release call, no access to
\* the freed object, no state changed.
C11_DestroyIsIdempotent ==
  [][(lastCall'.op = "destroy" /\ (lastCall'.c = "NULL" \/ heap # "live"))
       => (lastCall'.outcome = "nothing" /\ heap' = heap /\ egl' = egl /\ gl' = gl)]_vars

\* C14: gpu_context_is_valid returns true exactly for a non-null context
\* whose backend kind is not None, which is exactly when
\* gpu_context_get_backend returns something other than GPU_BACKEND_NONE.
C14_IsValidIffBackend ==
  lastCall.op = "is_valid" =>
    /\ lastCall.ret = 1 <=> (lastCall.c # "NULL" /\ ctx.backend_type # "NONE")
    /\ lastCall.ret = 0 <=> (lastCall.c = "NULL" \/ ctx.backend_type = "NONE")
    /\ lastCall.ret = 1 <=> get_backend_ret(lastCall.c) # 0

\* C14 witness: both answers occur: true for a created context, false for
\* NULL while that context is alive.
C14_Witness ==
  /\ lastCall.op = "is_valid"
  /\ lastCall.c = "NULL"
  /\ lastCall.ret = 0
  /\ heap = "live"
  /\ ret = "ctx"
  /\ ctx.backend_type = "OPENGLES"

\* C20: the backend kind gpu_context_get_device_info writes into the info
\* structure is the backend kind gpu_context_get_backend returns for the
\* same context.
C20_InfoReportsBackend ==
  (lastCall.op = "get_device_info" /\ lastCall.outcome = "filled") =>
    lastCall.ret.backend_type = get_backend_ret(lastCall.c)

\* C20 witness: the info structure of a context gpu_context_create returned
\* reports OpenGL ES.
C20_Witness ==
  /\ lastCall.op = "get_device_info"
  /\ lastCall.outcome = "filled"
  /\ lastCall.ret.backend_type = 3
  /\ heap = "live"

\* C12: gpu_context_destroy on a live context leaves no shader, program,
\* buffer or texture of that context live, whatever was created and not
\* deleted before.
C12_DestroyReclaimsResources ==
  [][(lastCall'.op = "destroy" /\ lastCall'.c = "ctx" /\ heap = "live")
       => (Live(gl') = {} /\ heap' = "freed")]_vars

\* C12 witness: a context destroyed while a shader, a buffer and a texture
\* were outstanding.
C12_Witness ==
  /\ lastCall.op = "destroy"
  /\ lastCall.c = "ctx"
  /\ lastCall.arg >= 3
  /\ heap = "freed"
  /\ Live(gl) = {}

FrameOps == {"clear", "viewport", "present"}

\* C13: gpu_context_clear, gpu_context_viewport and gpu_context_present
\* given NULL, or a context whose backend kind is None, change nothing of
\* the backend (no call issued) and nothing of the context, its stored width
\* and height included.
C13_FrameOpsSkipInvalidContext ==
  [][(lastCall'.op \in FrameOps /\ (lastCall'.c = "NULL" \/ ctx.backend_type = "NONE"))
       => (gl' = gl /\ egl' = egl /\ ctx' = ctx)]_vars

\* C13 witness: gpu_context_viewport was called with NULL while a context
\* with other dimensions than the call's was alive.
C13_Witness ==
  /\ lastCall.op = "viewport"
  /\ lastCall.c = "NULL"
  /\ heap = "live"
  /\ ctx.width = MaxDim
  /\ gl.viewport = <<>>

\* C17: gpu_composite_pass with a blend mode outside 0..3 leaves the source
\* and destination factors of the blend function as the call found them.
C17_UnknownModeKeepsBlendFunc ==
  [][(lastCall'.op = "composite_pass" /\ lastCall'.c = "ctx" /\ lastCall'.arg \notin 0..3)
       => (gl'.blend.src = gl.blend.src /\ gl'.blend.dst = gl.blend.dst)]_vars

\* C17 witness: mode -1 was passed after Multiply had been configured, and
\* Multiply is still configured.
C17_Witness ==
  /\ lastCall.op = "composite_pass"
  /\ lastCall.c = "ctx"
  /\ lastCall.arg = -1
  /\ gl.blend.src = "GL_DST_COLOR"
  /\ gl.blend.dst = "GL_ZERO"

\* The blend function of each mode as the interface documents it.
ModeTable ==
  [m \in 0..3 |->
     CASE m = 0 -> <<"GL_SRC_ALPHA", "GL_ONE_MINUS_SRC_ALPHA">>
       [] m = 1 -> <<"GL_DST_COLOR", "GL_ZERO">>
       [] m = 2 -> <<"GL_ONE", "GL_ONE_MINUS_SRC_COLOR">>
       [] m = 3 -> <<"GL_SRC_ALPHA", "GL_ONE">>]

\* C18: gpu_composite_pass with a mode in 0..3 leaves the blend function of
\* that mode whatever was configured before, and a second call with the
\* same mode right after the first changes nothing.
C18_BlendModeIsPure ==
  [][/\ (lastCall'.op = "composite_pass" /\ lastCall'.c = "ctx" /\ lastCall'.arg \in 0..3)
          => <<gl'.blend.src, gl'.blend.dst>> = ModeTable[lastCall'.arg]
     /\ (lastCall'.op = "composite_pass" /\ lastCall'.c = "ctx" /\ lastCall'.arg \in 0..3
           /\ lastCall' = lastCall)
          => gl' = gl]_vars

\* C18 witness: Screen was selected.
C18_Witness ==
  /\ lastCall.op = "composite_pass"
  /\ lastCall.c = "ctx"
  /\ lastCall.arg = 2
  /\ gl.blend = [enabled |-> TRUE, src |-> "GL_ONE", dst |-> "GL_ONE_MINUS_SRC_COLOR"]

\* C15: gpu_context_use_shader(h) on a valid context records h as the
\* current program, no other call changes the record, and an upload hands
\* the recorded program, hence the handle of the most recent
\* gpu_context_use_shader, to glGetUniformLocation.
C15_UploadsTargetCurrentProgram ==
  [][/\ (lastCall'.op = "use_shader" /\ lastCall'.c = "ctx")
          => ctx'.current_program = lastCall'.arg
     /\ lastCall'.op # "use_shader" => ctx'.current_program = ctx.current_program
     /\ (lastCall'.op \in UniformOps /\ lastCall'.outcome = "looked_up")
          => /\ lastCall'.arg = ctx.current_program
             /\ gl'.uniforms # gl.uniforms => ctx.current_program \in gl.programs]_vars

\* C15 witness: an upload resolved a location in the program selected by
\* gpu_context_use_shader and wrote the value there.
C15_Witness ==
  /\ lastCall.op \in UniformOps
  /\ lastCall.outcome = "looked_up"
  /\ lastCall.arg = 2
  /\ lastCall.ret = 0
  /\ ctx.current_program = 2
  /\ gl.program = 2
  /\ gl.programs = {2}
  /\ gl.uniforms[2] = 1

\* C16: an upload whose name glGetUniformLocation does not resolve
\* (location < 0) writes no uniform and changes nothing of the context or
\* the backend.
C16_UnresolvedUniformIgnored ==
  [][(lastCall'.op \in UniformOps /\ lastCall'.outcome = "looked_up" /\ lastCall'.ret < 0)
       => (gl' = gl /\ ctx' = ctx /\ egl' = egl)]_vars

\* C16 witness: the name did not resolve in the program in use, whose
\* uniform keeps the value an earlier upload wrote.
C16_Witness ==
  /\ lastCall.op = "set_uniform_float"
  /\ lastCall.outcome = "looked_up"
  /\ lastCall.ret = -1
  /\ lastCall.arg \in gl.programs
  /\ gl.program = lastCall.arg
  /\ gl.uniforms[lastCall.arg] = 1

\* The call the graph format assigns to each node type.
DispatchFn(node_type) ==
  CASE node_type = 0 -> "gpu_context_clear"
    [] node_type = 1 -> "draw_rect"
    [] node_type = 2 -> "gpu_blur_pass"
    [] node_type = 3 -> "gpu_shadow_pass"
    [] node_type = 4 -> "gpu_composite_pass"
    [] node_type = 5 -> "gpu_color_adjust_pass"

\* The arguments of that call, from the node's slice of the parameters: the
\* sample count of a blur and the mode of a composite are integers.
DispatchArgs(node_type, slice) ==
  CASE node_type = 2 -> <<slice[1], FloatToInt32(slice[2])>>
    [] node_type = 4 -> <<FloatToInt32(slice[1])>>
    [] OTHER -> slice

\* C19: when a well-formed graph of known node types has been executed, the
\* calls issued are one per node, in node order, each the call of its node's
\* type with the parameters at that node's cursor position.
C19_OneCallPerNodeInOrder ==
  (gstat = "done" /\ KnownGraph /\ param_count = TotalArity(nodes)) =>
    /\ Len(calls) = Len(nodes)
    /\ \A k \in 1..Len(nodes) :
         LET off == TotalArity(SubSeq(nodes, 1, k - 1))
             slice == SubSeq(params, off + 1, off + DeclaredArity(nodes[k]))
         IN calls[k] = [fn |-> DispatchFn(nodes[k]), args |-> DispatchArgs(nodes[k], slice)]

\* C21: gpu_context_destroy tears down in order: nothing is destroyed or
\* terminated while the context is current (so no deletion is ever deferred),
\* and the display connection is terminated only when context and surface
\* are gone.
C21_TeardownInOrder ==
  [][/\ egl'.doomed = {}
     /\ (egl.context /\ ~egl'.context) => ~egl.current
     /\ (egl.surface /\ ~egl'.surface) => ~egl.current
     /\ (egl.initialized /\ ~egl'.initialized)
          => (~egl.current /\ ~egl.context /\ ~egl.surface)]_vars

\* C21 witness: a destroy that ran all four EGL calls and freed the context.
C21_Witness ==
  /\ lastCall.op = "destroy"
  /\ lastCall.outcome = "released"
  /\ pc = "returned"
  /\ heap = "freed"
  /\ egl = EglNone

\* C22: a node whose tag is none of 0..5 dispatches no call, raises no
\* error, touches no GL state and leaves the cursor where it was, and the
\* loop goes on; the known node after it takes its parameters from that
\* unchanged cursor.
C22_UnknownNodeIsSkipped ==
  [][/\ (gstat = "running" /\ node_i < Len(nodes) /\ nodes[node_i + 1] \notin 0..5) =>
          /\ gstat' = "running"
          /\ node_i' = node_i + 1
          /\ calls' = calls
          /\ gl' = gl
          /\ reads' = {}
          /\ param_offset' = param_offset
     /\ (/\ gstat = "running"
         /\ 0 < node_i
         /\ node_i < Len(nodes)
         /\ nodes[node_i] \notin 0..5
         /\ nodes[node_i + 1] \in 0..5
         /\ node_i' = node_i + 1) =>
          LET node_type == nodes[node_i + 1]
              off == TotalArity(SubSeq(nodes, 1, node_i - 1))
              slice == SubSeq(params, off + 1, off + DeclaredArity(node_type))
          IN /\ reads' \subseteq off..(off + DeclaredArity(node_type) - 1)
             /\ param_offset' = off + DeclaredArity(node_type)
             /\ node_type # 1 =>
                  calls' = calls \o <<[fn |-> DispatchFn(node_type),
                                       args |-> DispatchArgs(node_type, slice)]>>]_vars

\* C22 witness: the graph [6, Clear] with four parameters has run to its
\* end: the unknown node took nothing and the Clear node read indices 0..3.
C22_Witness ==
  /\ gstat = "done"
  /\ nodes = <<6, 0>>
  /\ param_count = 4
  /\ reads = {0, 1, 2, 3}
  /\ param_offset = 4
  /\ calls = <<[fn |-> "gpu_context_clear", args |-> SubSeq(params, 1, 4)]>>

\* The draw calls of the immediate draw interface.
DrawFns == {"gpu_context_draw_arrays", "gpu_context_draw_elements"}

\* C23: the iteration that dispatches a DrawRect node issues at least one
\* draw call of the immediate draw interface and moves the cursor past the
\* node's eight parameters.
C23_DrawRectDraws ==
  [][(/\ gstat = "running"
      /\ node_i < Len(nodes)
      /\ nodes[node_i + 1] = 1
      /\ node_i' = node_i + 1) =>
        /\ param_offset' = param_offset + 8
        /\ Len(calls') > Len(calls)
        /\ \E k \in (Len(calls) + 1)..Len(calls') : calls'[k].fn \in DrawFns]_vars

\* C24: gpu_context_viewport on a valid context stores the width and height
\* it was given, and no other call changes the stored width and height; so
\* they are always those of the most recent viewport call, or those given at
\* creation.
C24_ViewportSetsDimensions ==
  [][IF lastCall'.op = "viewport" /\ lastCall'.c = "ctx" /\ ctx.backend_type # "NONE"
     THEN /\ ctx'.width = lastCall'.arg[3]
          /\ ctx'.height = lastCall'.arg[4]
     ELSE /\ ctx'.width = ctx.width
          /\ ctx'.height = ctx.height]_vars

\* C24 witness: a context created 2 x 2 was given the viewport (0, 0, 2, 1)
\* after a clear, and stores 2 x 1.
C24_Witness ==
  /\ lastCall.op = "viewport"
  /\ lastCall.c = "ctx"
  /\ lastCall.arg = <<0, 0, 2, 1>>
  /\ gl.clears
  /\ gl.viewport = <<0, 0, 2, 1>>
  /\ ctx.width = 2
  /\ ctx.height = 1

\* C25: the current program a context records is 0 or names a program that
\* is live: a program object that has not been deleted, nor flagged for
\* deletion while in use.
C25_CurrentProgramIsLive ==
  \/ ctx.current_program = 0
  \/ /\ ctx.current_program \in gl.programs
     /\ ~(gl.program_doomed /\ gl.program = ctx.current_program)

\* C26: while gpu_context_create holds a context that no probe has accepted,
\* its backend kind is None and its identity strings are empty; a returned
\* context carries the kind of the probe that succeeded and, for each
\* identity string, what that probe obtained or nothing.
C26_OnlySuccessfulProbeWrites ==
  /\ (heap = "live" /\ \A k \in 1..Len(probes) : ~probes[k].ok) =>
       /\ ctx.backend_type = "NONE"
       /\ ctx.vendor_name = ""
       /\ ctx.device_name = ""
       /\ ctx.driver_version = ""
  /\ (ret = "ctx" /\ heap = "live") =>
       /\ ctx.backend_type = KindOf(LastProbe.backend)
       /\ ctx.vendor_name \in {"", "vendor"}
       /\ ctx.device_name \in {"", "renderer"}
       /\ ctx.driver_version \in {"", "version"}

====
